---------------------------- MODULE Spec2Model ----------------------------
(***************************************************************************)
(* A model of scripts/update_stories.py: the Crossref works parser, the    *)
(* keyword classifier, the de-duplicating collector and the output         *)
(* builder.  Strings are TLA+ strings; a character is a string of length   *)
(* one.  Python's None is the empty sequence and a value v the sequence    *)
(* <<v>> wherever the code returns an optional.                            *)
(***************************************************************************)
EXTENDS Integers, Sequences, FiniteSets, TLC

(***************************************************************************)
(* Program constants.                                                      *)
(***************************************************************************)
ACADEMIC_QUERIES ==
    << "government corruption", "public sector ethics", "public sector graft",
       "political greed", "nonprofit corruption", "charity fraud governance",
       "ngo ethics", "civil society accountability", "anti-corruption policy",
       "anti-graft institutions" >>

POSITIVE_KEYWORDS ==
    { "anti-corruption", "anti corruption", "anticorruption", "anti graft",
      "anti-graft", "anti bribery", "anti-bribery", "anti fraud", "anti-fraud",
      "anti-greed", "anti greed", "integrity", "reform", "transparency",
      "oversight", "accountability", "improve", "improved", "improves",
      "cleaned up", "cleared", "acquitted", "new ethics rules", "adopts ethics" }

NEGATIVE_KEYWORDS ==
    { "ethics", "unethical", "anti-ethics", "corruption", "graft", "greed",
      "bribery", "bribe", "fraud", "embezzlement", "kickback",
      "money laundering", "scandal", "probe", "investigation", "charged",
      "indicted", "convicted", "arrested", "misuse", "misconduct" }

GOVERNMENT_TERMS ==
    { "government", "public", "municipal", "city", "state", "federal",
      "minister", "senate", "congress", "parliament", "mayor", "governor",
      "agency", "department", "county" }

NONPROFIT_TERMS ==
    { "nonprofit", "non-profit", "non profit", "charity", "charitable",
      "foundation", "ngo", "non-governmental", "civil society",
      "not-for-profit", "not for profit", "philanthropy", "donor-funded" }

BUSINESS_TERMS ==
    { "business", "corporate", "corporation", "company", "earnings",
      "quarterly results", "stock", "share price", "ipo", "merger",
      "acquisition", "ceo", "investor", "wall street" }

MAX_STORIES_PER_COLUMN == 60

\* short_title's default limit
DefaultLimit == 95

\* The suffix short_title appends, as the source file spells it: three
\* characters, not the single character U+2026.
EllipsisSuffix == "â€¦"

(***************************************************************************)
(* Characters and the regular expressions of the program.                  *)
(***************************************************************************)
Char(s, i) == SubSeq(s, i, i)

\* \s of the re module, for the characters the model's texts hold
WhitespaceChars == { " ", "\t", "\n", "\r", "\f" }

LowerLetters == "abcdefghijklmnopqrstuvwxyz"
UpperLetters == "ABCDEFGHIJKLMNOPQRSTUVWXYZ"
Digits == "0123456789"

CharsOf(s) == { Char(s, i) : i \in 1..Len(s) }

\* \w of the re module, for the characters the model's texts hold
WordChars == CharsOf(LowerLetters) \cup CharsOf(UpperLetters) \cup CharsOf(Digits) \cup {"_"}

IsSpace(c) == c \in WhitespaceChars

\* the least index of c in s, or 0
IndexOf(s, c) ==
    LET hits == { i \in 1..Len(s) : Char(s, i) = c }
    IN  IF hits = {} THEN 0 ELSE CHOOSE i \in hits : \A k \in hits : i <= k

\* str.lower() of the upper-case letters
LowerOfUpper ==
    [c \in CharsOf(UpperLetters) |-> Char(LowerLetters, IndexOf(UpperLetters, c))]

\* str.lower(), character by character
LowerChar(c) == IF c \in DOMAIN LowerOfUpper THEN LowerOfUpper[c] ELSE c

\* the characters lo..hi of s, each through LowerChar
RECURSIVE LowerRange(_, _, _)
LowerRange(s, lo, hi) ==
    IF lo > hi THEN ""
    ELSE IF lo = hi THEN LowerChar(Char(s, lo))
    ELSE LET mid == (lo + hi) \div 2
         IN  LowerRange(s, lo, mid) \o LowerRange(s, mid + 1, hi)

Lower(s) == LowerRange(s, 1, Len(s))

\* s without its leading whitespace (str.lstrip)
LStrip(s) ==
    IF \A i \in 1..Len(s) : IsSpace(Char(s, i)) THEN ""
    ELSE LET first == CHOOSE i \in 1..Len(s) :
                         ~IsSpace(Char(s, i)) /\ \A j \in 1..(i - 1) : IsSpace(Char(s, j))
         IN  SubSeq(s, first, Len(s))

\* s without its trailing whitespace (str.rstrip)
RStrip(s) ==
    IF \A i \in 1..Len(s) : IsSpace(Char(s, i)) THEN ""
    ELSE LET last == CHOOSE i \in 1..Len(s) :
                        ~IsSpace(Char(s, i)) /\ \A j \in (i + 1)..Len(s) : IsSpace(Char(s, j))
         IN  SubSeq(s, 1, last)

Strip(s) == LStrip(RStrip(s))

\* what re.sub(r"\s+", " ", s) leaves of the characters lo..hi of s: a
\* character that is no whitespace, one space for the first of a whitespace
\* run, nothing for the rest of the run
RECURSIVE CollapseRange(_, _, _)
CollapseRange(s, lo, hi) ==
    IF lo > hi THEN ""
    ELSE IF lo = hi
         THEN IF ~IsSpace(Char(s, lo)) THEN Char(s, lo)
              ELSE IF lo > 1 /\ IsSpace(Char(s, lo - 1)) THEN "" ELSE " "
    ELSE LET mid == (lo + hi) \div 2
         IN  CollapseRange(s, lo, mid) \o CollapseRange(s, mid + 1, hi)

\* re.sub(r"\s+", " ", s): every maximal whitespace run becomes one space
CollapseWhitespace(s) == CollapseRange(s, 1, Len(s))

\* re.sub(r"<[^>]+>", " ", s): a "<", one or more characters other than
\* ">", and the ">" that follows them, become one space; leftmost first
RECURSIVE StripTags(_)
StripTags(s) ==
    LET i == IndexOf(s, "<")
        rest == SubSeq(s, i + 1, Len(s))
        j == IndexOf(rest, ">")
    IN  IF i = 0 THEN s
        ELSE IF j >= 2
             THEN SubSeq(s, 1, i - 1) \o " " \o StripTags(SubSeq(rest, j + 1, Len(rest)))
        ELSE SubSeq(s, 1, i) \o StripTags(rest)

short_title(title, limit) ==
    LET cleaned == Strip(CollapseWhitespace(title))
    IN  IF Len(cleaned) <= limit THEN cleaned
        ELSE RStrip(SubSeq(cleaned, 1, limit - 1)) \o EllipsisSuffix

\* \b at the gap after the k-th character of text (k = 0: before the first)
IsWordAt(text, k) == k >= 1 /\ k <= Len(text) /\ Char(text, k) \in WordChars
WordBoundary(text, k) == IsWordAt(text, k) # IsWordAt(text, k + 1)

\* re.search(r"\b" + re.escape(term) + r"\b", text)
TermFound(text, term) ==
    \E i \in 1..(Len(text) - Len(term) + 1) :
        /\ Char(text, i) = Head(term)
        /\ SubSeq(text, i, i + Len(term) - 1) = term
        /\ WordBoundary(text, i - 1)
        /\ WordBoundary(text, i + Len(term) - 1)

contains_any(text, terms) == \E term \in terms : TermFound(text, term)

clean_text(value) == Strip(CollapseWhitespace(StripTags(value)))

\* the two tests in the other order
ClassifyPositiveFirst(text) ==
    IF contains_any(text, POSITIVE_KEYWORDS) THEN <<"positive">>
    ELSE IF contains_any(text, NEGATIVE_KEYWORDS) THEN <<"negative">>
    ELSE <<>>

classify_sentiment(text) ==
    IF contains_any(text, NEGATIVE_KEYWORDS) THEN <<"negative">>
    ELSE IF contains_any(text, POSITIVE_KEYWORDS) THEN <<"positive">>
    ELSE <<>>

should_skip_business_only(text) ==
    LET has_business == contains_any(text, BUSINESS_TERMS)
        has_relevant_domain ==
            contains_any(text, GOVERNMENT_TERMS) \/ contains_any(text, NONPROFIT_TERMS)
    IN  has_business /\ ~has_relevant_domain

(***************************************************************************)
(* datetime: a record of the fields of an aware UTC datetime.              *)
(***************************************************************************)
DateTime(y, mo, d, h, mi, sec, us) ==
    [year |-> y, month |-> mo, day |-> d, hour |-> h, minute |-> mi,
     second |-> sec, microsecond |-> us]

IsLeap(y) == (y % 4 = 0 /\ y % 100 # 0) \/ y % 400 = 0

DaysInMonth(y, m) ==
    IF m = 2 THEN (IF IsLeap(y) THEN 29 ELSE 28)
    ELSE IF m \in {4, 6, 9, 11} THEN 30 ELSE 31

\* datetime(year, month, day, tzinfo=utc) raises ValueError outside these
ValidDate(y, m, d) ==
    /\ y >= 1 /\ y <= 9999
    /\ m >= 1 /\ m <= 12
    /\ d >= 1 /\ d <= DaysInMonth(y, m)

\* the decimal digits of n >= 0, zero-padded on the left to width w
RECURSIVE ZeroPad(_, _)
ZeroPad(n, w) ==
    IF n < 10 /\ w <= 1 THEN Char(Digits, n + 1)
    ELSE ZeroPad(n \div 10, w - 1) \o Char(Digits, (n % 10) + 1)

\* datetime.isoformat() of an aware UTC datetime
isoformat(dt) ==
    ZeroPad(dt.year, 4) \o "-" \o ZeroPad(dt.month, 2) \o "-" \o ZeroPad(dt.day, 2)
    \o "T" \o ZeroPad(dt.hour, 2) \o ":" \o ZeroPad(dt.minute, 2) \o ":"
    \o ZeroPad(dt.second, 2)
    \o (IF dt.microsecond = 0 THEN "" ELSE "." \o ZeroPad(dt.microsecond, 6))
    \o "+00:00"

(***************************************************************************)
(* JSON values of a Crossref response, one record shape per place:         *)
(*   a scalar field   [t: absent | null | str, s]                          *)
(*   a title field    [t: absent | null | str | list | num, s, l]          *)
(*   a date field     [t: absent | null | obj, keys, dp]                   *)
(*   its date-parts   [t: null | list, l], a list of [t: null | list, l]   *)
(*   a date part      [t: int | null | str, n, s]                          *)
(***************************************************************************)
Absent == [t |-> "absent", s |-> ""]
Null == [t |-> "null", s |-> ""]
Str(s) == [t |-> "str", s |-> s]

TAbsent == [t |-> "absent", s |-> "", l |-> <<>>]
TNull == [t |-> "null", s |-> "", l |-> <<>>]
TNum == [t |-> "num", s |-> "", l |-> <<>>]
TStr(s) == [t |-> "str", s |-> s, l |-> <<>>]
TList(l) == [t |-> "list", s |-> "", l |-> l]

PInt(n) == [t |-> "int", n |-> n, s |-> ""]
PNull == [t |-> "null", n |-> 0, s |-> ""]
PStr(s) == [t |-> "str", n |-> 0, s |-> s]

NoParts == [t |-> "null", l |-> <<>>]
DAbsent == [t |-> "absent", keys |-> {}, dp |-> NoParts]
DNull == [t |-> "null", keys |-> {}, dp |-> NoParts]
\* {"date-parts": [parts]}
DParts(parts) ==
    [t |-> "obj", keys |-> {"date-parts"},
     dp |-> [t |-> "list", l |-> << [t |-> "list", l |-> parts] >>]]
\* {"date-parts": dp} for any date-parts value dp
DObj(dp) == [t |-> "obj", keys |-> {"date-parts"}, dp |-> dp]
\* {"date-time": "..."}: an object without date-parts
DNoParts == [t |-> "obj", keys |-> {"date-time"}, dp |-> NoParts]
\* {}
DEmpty == [t |-> "obj", keys |-> {}, dp |-> NoParts]

\* bool(v) of a JSON value, as `x or default` and `if x` test it
Truthy(v) ==
    \/ v.t = "str" /\ v.s # ""
    \/ v.t = "list" /\ v.l # <<>>
    \/ v.t = "num"
    \/ v.t = "obj" /\ v.keys # {}

\* the value of a string of decimal digits
RECURSIVE DigitsValue(_)
DigitsValue(s) ==
    IF s = "" THEN 0
    ELSE 10 * DigitsValue(SubSeq(s, 1, Len(s) - 1)) + (IndexOf(Digits, Char(s, Len(s))) - 1)

\* int(x) of a date part: [exc, v].  A string is taken in its plain form, a
\* run of decimal digits.
IntOf(p) ==
    IF p.t = "int" THEN [exc |-> "none", v |-> p.n]
    ELSE IF p.t = "null" THEN [exc |-> "TypeError", v |-> 0]
    ELSE IF p.s # "" /\ \A i \in 1..Len(p.s) : Char(p.s, i) \in CharsOf(Digits)
         THEN [exc |-> "none", v |-> DigitsValue(p.s)]
    ELSE [exc |-> "ValueError", v |-> 0]

Returned(v) == [exc |-> "none", v |-> v]
Raised(e, v) == [exc |-> e, v |-> v]

\* parse_date_parts(raw), with `now` the value datetime.now(timezone.utc)
\* gives: [exc, v].  The three int() calls stand outside the try.
parse_date_parts(raw, now) ==
    IF raw.t # "obj" THEN Returned(now)
    ELSE IF "date-parts" \notin raw.keys \/ raw.dp.t # "list" \/ raw.dp.l = <<>>
         THEN Returned(now)
    ELSE LET first == raw.dp.l[1]
         IN  IF first.t # "list" \/ first.l = <<>> THEN Returned(now)
             ELSE LET year == IntOf(first.l[1])
                      month == IF Len(first.l) > 1 THEN IntOf(first.l[2])
                               ELSE Returned(1)
                      day == IF Len(first.l) > 2 THEN IntOf(first.l[3])
                             ELSE Returned(1)
                  IN  IF year.exc # "none" THEN Raised(year.exc, now)
                      ELSE IF month.exc # "none" THEN Raised(month.exc, now)
                      ELSE IF day.exc # "none" THEN Raised(day.exc, now)
                      ELSE IF ~ValidDate(year.v, month.v, day.v) THEN Returned(now)
                      ELSE IF year.v < 1900 \/ year.v > now.year + 1 THEN Returned(now)
                      ELSE Returned(DateTime(year.v, month.v, day.v, 0, 0, 0, 0))

(***************************************************************************)
(* A work entry of message.items: an object with the selected fields, or a *)
(* JSON null in its place.                                                 *)
(***************************************************************************)
Work(title, url, doi, abstract, container, publisher, online, print, published, created) ==
    [t |-> "obj", title |-> title, URL |-> url, DOI |-> doi, abstract |-> abstract,
     container_title |-> container, publisher |-> publisher,
     published_online |-> online, published_print |-> print,
     published |-> published, created |-> created]

NullEntry ==
    [t |-> "null", title |-> TAbsent, URL |-> Absent, DOI |-> Absent, abstract |-> Absent,
     container_title |-> TAbsent, publisher |-> Absent,
     published_online |-> DAbsent, published_print |-> DAbsent,
     published |-> DAbsent, created |-> DAbsent]

\* str(v or "") of a scalar field
StrOrEmpty(v) == IF Truthy(v) THEN v.s ELSE ""

\* the title and container-title branches of parse_crossref_items
FirstOrScalar(v) ==
    LET values == IF Truthy(v) THEN v ELSE TList(<<>>)
    IN  IF values.t = "list" /\ values.l # <<>> THEN clean_text(values.l[1])
        ELSE IF values.t = "str" THEN clean_text(values.s)
        ELSE ""

\* the body of the loop of parse_crossref_items for one entry: [exc, v]
ParseItem(item, now) ==
    IF item.t # "obj" THEN Raised("AttributeError", <<>>)
    ELSE
    LET title == FirstOrScalar(item.title)
        url0 == clean_text(StrOrEmpty(item.URL))
        doi == clean_text(StrOrEmpty(item.DOI))
        abstract == clean_text(StrOrEmpty(item.abstract))
        source0 == FirstOrScalar(item.container_title)
        source == IF source0 # "" THEN source0
                  ELSE LET pub == clean_text(StrOrEmpty(item.publisher))
                       IN  IF pub # "" THEN pub ELSE "Unknown source"
        published_at ==
            IF Truthy(item.published_online) THEN parse_date_parts(item.published_online, now)
            ELSE IF Truthy(item.published_print) THEN parse_date_parts(item.published_print, now)
            ELSE IF Truthy(item.published) THEN parse_date_parts(item.published, now)
            ELSE parse_date_parts(item.created, now)
        url == IF doi # "" /\ url0 = "" THEN "https://doi.org/" \o doi ELSE url0
    IN  IF published_at.exc # "none" THEN Raised(published_at.exc, <<>>)
        ELSE Returned([title |-> title, url |-> url, doi |-> doi,
                       published_at |-> published_at.v, source |-> source,
                       abstract |-> abstract])

RECURSIVE ParseItems(_, _, _)
ParseItems(items, now, parsed) ==
    IF items = <<>> THEN Returned(parsed)
    ELSE LET r == ParseItem(Head(items), now)
         IN  IF r.exc # "none" THEN Raised(r.exc, parsed)
             ELSE ParseItems(Tail(items), now, Append(parsed, r.v))

(***************************************************************************)
(* A response body: [shape, entries].                                      *)
(*   not_json            bytes json.loads rejects                          *)
(*   top_array           a JSON array at the top                           *)
(*   message_not_object  {"message": null} or another non-object           *)
(*   no_message          an object without "message"                       *)
(*   items_not_list      {"message": {"items": "..."}}                     *)
(*   items               {"message": {"items": entries}}                   *)
(***************************************************************************)
Payload(shape, entries) == [shape |-> shape, entries |-> entries]

\* parse_crossref_items(payload_bytes): [exc, v]
parse_crossref_items(payload, now) ==
    IF payload.shape = "not_json" THEN Raised("JSONDecodeError", <<>>)
    ELSE IF payload.shape \in {"top_array", "message_not_object"}
         THEN Raised("AttributeError", <<>>)
    ELSE IF payload.shape \in {"no_message", "items_not_list"} THEN Returned(<<>>)
    ELSE ParseItems(payload.entries, now, <<>>)

(***************************************************************************)
(* Story and normalize_story.                                              *)
(***************************************************************************)
TextOf(raw) == Lower(raw.title \o " " \o raw.source \o " " \o raw.abstract)

normalize_story(raw) ==
    IF raw.title = "" \/ raw.url = "" THEN <<>>
    ELSE LET text == TextOf(raw)
         IN  IF should_skip_business_only(text) THEN <<>>
             ELSE LET sentiment == classify_sentiment(text)
                      is_government == contains_any(text, GOVERNMENT_TERMS)
                      is_nonprofit == contains_any(text, NONPROFIT_TERMS)
                  IN  IF sentiment = <<>> THEN <<>>
                      ELSE IF ~is_government /\ ~is_nonprofit THEN <<>>
                      ELSE << [title |-> raw.title,
                               short_title |-> short_title(raw.title, DefaultLimit),
                               url |-> raw.url,
                               source |-> raw.source,
                               published_at |-> isoformat(raw.published_at),
                               sentiment |-> sentiment[1],
                               government |-> is_government,
                               nonprofit |-> is_nonprofit] >>

(***************************************************************************)
(* collect_stories: the inner loop over one response's items, and the sort *)
(* it returns.                                                             *)
(***************************************************************************)
\* the key falling back on the title, not the url
DedupKeyDoiOrTitle(item) == IF item.doi # "" THEN item.doi ELSE item.title

\* key = item.get("doi") or item["url"]
DedupKey(item) == IF item.doi # "" THEN item.doi ELSE item.url

\* the loop with the key recorded before normalize_story is asked
RECURSIVE ItemLoopKeyFirst(_, _)
ItemLoopKeyFirst(items, acc) ==
    IF items = <<>> THEN acc
    ELSE LET item == Head(items)
             key == IF item.doi # "" THEN item.doi ELSE item.url
             story == normalize_story(item)
         IN  IF key \in acc.seen_keys THEN ItemLoopKeyFirst(Tail(items), acc)
             ELSE IF story = <<>>
                  THEN ItemLoopKeyFirst(Tail(items),
                                        [acc EXCEPT !.seen_keys = @ \cup {key}])
             ELSE ItemLoopKeyFirst(Tail(items),
                                   [collected |-> Append(acc.collected, story[1]),
                                    seen_keys |-> acc.seen_keys \cup {key},
                                    accepted |-> Append(acc.accepted, item)])

\* acc is [collected, seen_keys, accepted]; accepted records, for each story of
\* collected, the parsed item it was made from
RECURSIVE ItemLoop(_, _)
ItemLoop(items, acc) ==
    IF items = <<>> THEN acc
    ELSE LET item == Head(items)
             key == DedupKey(item)
             story == normalize_story(item)
         IN  IF key \in acc.seen_keys THEN ItemLoop(Tail(items), acc)
             ELSE IF story = <<>> THEN ItemLoop(Tail(items), acc)
             ELSE ItemLoop(Tail(items),
                           [collected |-> Append(acc.collected, story[1]),
                            seen_keys |-> acc.seen_keys \cup {key},
                            accepted |-> Append(acc.accepted, item)])

\* ASCII 32..95 and 97..126 in code point order
AsciiLow ==
    " !\"#$%&'()*+,-./0123456789:;<=>?@ABCDEFGHIJKLMNOPQRSTUVWXYZ[\\]^_"
AsciiHigh == "abcdefghijklmnopqrstuvwxyz{|}~"

\* ord(c) of these characters
CodePoints ==
    [c \in CharsOf(AsciiLow) \cup CharsOf(AsciiHigh) |->
        IF IndexOf(AsciiLow, c) # 0 THEN IndexOf(AsciiLow, c) + 31
        ELSE IndexOf(AsciiHigh, c) + 96]

CodePoint(c) == CodePoints[c]

\* the least index in lo..hi at which a and b differ, given that they agree
\* before lo and differ somewhere in lo..hi
RECURSIVE FirstDifference(_, _, _, _)
FirstDifference(a, b, lo, hi) ==
    IF lo = hi THEN lo
    ELSE LET mid == (lo + hi) \div 2
         IN  IF SubSeq(a, lo, mid) = SubSeq(b, lo, mid)
             THEN FirstDifference(a, b, mid + 1, hi)
             ELSE FirstDifference(a, b, lo, mid)

\* a < b as Python compares str: by code point at the first difference, a
\* proper prefix first
StrLess(a, b) ==
    LET n == IF Len(a) < Len(b) THEN Len(a) ELSE Len(b)
    IN  IF SubSeq(a, 1, n) = SubSeq(b, 1, n) THEN Len(a) < Len(b)
        ELSE LET d == FirstDifference(a, b, 1, n)
             IN  CodePoint(Char(a, d)) < CodePoint(Char(b, d))

Reverse(seq) == [i \in 1..Len(seq) |-> seq[Len(seq) + 1 - i]]

\* the stories of the keys given, the greatest key first, those of one key in
\* their original order
RECURSIVE ByKeyDescending(_, _)
ByKeyDescending(stories_in, keys) ==
    IF keys = {} THEN <<>>
    ELSE LET top == CHOOSE k \in keys : \A b \in keys : ~StrLess(k, b)
             HasTopKey(s) == s.published_at = top
         IN  SelectSeq(stories_in, HasTopKey) \o ByKeyDescending(stories_in, keys \ {top})

RECURSIVE ByKeyDescendingTiesReversed(_, _)
ByKeyDescendingTiesReversed(stories_in, keys) ==
    IF keys = {} THEN <<>>
    ELSE LET top == CHOOSE k \in keys : \A b \in keys : ~StrLess(k, b)
             HasTopKey(s) == s.published_at = top
         IN  Reverse(SelectSeq(stories_in, HasTopKey))
             \o ByKeyDescendingTiesReversed(stories_in, keys \ {top})

\* an ascending stable sort, reversed: the greatest key first, equal keys in
\* the reverse of their original order
SortedThenReversed(stories_in) ==
    ByKeyDescendingTiesReversed(stories_in,
                                { stories_in[i].published_at : i \in DOMAIN stories_in })

\* sorted(collected, key=lambda s: s.published_at, reverse=True): the greatest
\* key first, equal keys in their original order (the sort is stable, under
\* reverse=True too)
SortedByPublishedAt(stories_in) ==
    ByKeyDescending(stories_in, { stories_in[i].published_at : i \in DOMAIN stories_in })

(***************************************************************************)
(* build_output.                                                           *)
(***************************************************************************)
Take(seq, n) == SubSeq(seq, 1, IF Len(seq) < n THEN Len(seq) ELSE n)

to_dict(story) ==
    [title |-> story.title, short_title |-> story.short_title, url |-> story.url,
     source |-> story.source, published_at |-> story.published_at,
     sentiment |-> story.sentiment]

ToDicts(seq) == [i \in 1..Len(seq) |-> to_dict(seq[i])]

IsGovernment(s) == s.government
IsNonprofit(s) == s.nonprofit

\* one budget of MAX_STORIES_PER_COLUMN for the two lists together
BuildOutputSharedBudget(stories_in, now) ==
    LET government == Take(SelectSeq(stories_in, IsGovernment), MAX_STORIES_PER_COLUMN)
        nonprofit == Take(SelectSeq(stories_in, IsNonprofit),
                          MAX_STORIES_PER_COLUMN - Len(government))
    IN  [updated_at |-> isoformat(now),
         government |-> ToDicts(government),
         nonprofit |-> ToDicts(nonprofit)]

build_output(stories_in, now) ==
    LET government == Take(SelectSeq(stories_in, IsGovernment), MAX_STORIES_PER_COLUMN)
        nonprofit == Take(SelectSeq(stories_in, IsNonprofit), MAX_STORIES_PER_COLUMN)
    IN  [updated_at |-> isoformat(now),
         government |-> ToDicts(government),
         nonprofit |-> ToDicts(nonprofit)]

(***************************************************************************)
(* The Crossref side: a catalogue of work entries, and worlds, each a      *)
(* choice of the response body every query gets.                           *)
(***************************************************************************)
NumWorlds == 4
MaxFailures == 2

Ymd(y, m, d) == DParts(<<PInt(y), PInt(m), PInt(d)>>)

Works ==
    << \* 1: DOI and URL, a dated journal article
       Work(TList(<<"City fraud audit">>), Str("https://doi.org/10.1/a"), Str("10.1/a"),
            Absent, TList(<<"Public Integrity">>), Str("Wiley"),
            DAbsent, DAbsent, Ymd(2024, 5, 17), Ymd(2024, 6, 1)),
       \* 2: the DOI of 1 under another URL and title, markup in the title
       Work(TList(<<"Charity <i>reform</i>  now">>), Str("https://example.org/b"),
            Str("10.1/a"), Str("<jats:p>Donor trust.</jats:p>"), TAbsent, Str("Sage"),
            DParts(<<PInt(2025), PInt(1)>>), Ymd(2025, 3, 1), DAbsent, DAbsent),
       \* 3: the DOI of 1 again, a text no keyword matches
       Work(TList(<<"Weather notes">>), Str("https://doi.org/10.1/a"), Str("10.1/a"),
            Absent, TList(<<"Climate Letters">>), Absent,
            DAbsent, DAbsent, DAbsent, Ymd(2023, 2, 28)),
       \* 4: the URL of 1 and no DOI
       Work(TStr("Municipal oversight"), Str("https://doi.org/10.1/a"), Absent,
            Absent, TList(<<>>), Absent,
            DAbsent, Ymd(2024, 5, 17), DAbsent, DAbsent),
       \* 5: a DOI and no URL; dated like 1
       Work(TList(<<"NGO ethics">>), Null, Str("10.1/e"),
            Absent, TStr("Voluntas"), Absent,
            DEmpty, DNull, DAbsent, Ymd(2024, 5, 17)),
       \* 6: no title
       Work(TAbsent, Str("https://example.org/f"), Str("10.1/f"),
            Str("State bribery and public graft"), TList(<<"Governance">>), Absent,
            DAbsent, DAbsent, Ymd(2022, 1, 1), DAbsent),
       \* 7: neither DOI nor URL
       Work(TList(<<"State bribery">>), Absent, Str(""),
            Absent, TNull, Null,
            DAbsent, DAbsent, Ymd(2022, 1, 1), DAbsent),
       \* 8: no DOI, the URL of 2, a year before 1900
       Work(TStr("Government transparency"), Str("https://example.org/b"), Absent,
            Absent, TNum, Str("Elsevier"),
            DAbsent, DAbsent, DParts(<<PInt(1850)>>), DAbsent),
       \* 9: no DOI, the URL of 2 and 8, another title, no date at all
       Work(TList(<<"Federal probe">>), Str("https://example.org/b"), Null,
            Absent, TList(<<"Law Review">>), Absent,
            DAbsent, DNoParts, DAbsent, DAbsent),
       \* 10: business only
       Work(TList(<<"Corporate merger fraud">>), Str("https://example.org/j"), Str("10.1/j"),
            Absent, TList(<<"Finance Letters">>), Absent,
            DAbsent, DAbsent, Ymd(2026, 2, 30), DAbsent),
       \* 11: the DOI of 5 with a URL, a later date given as strings
       Work(TList(<<"Philanthropy scandal">>), Str("https://example.org/k"), Str("10.1/e"),
            Absent, TAbsent, Absent,
            DParts(<<PStr("2026"), PStr("10"), PStr("02")>>), DAbsent, DAbsent, DAbsent) >>

\* works whose date-parts hold null or a non-numeric string, as Crossref
\* gives for a record without a date
UndatedWorks ==
    << Work(TList(<<"Public graft">>), Str("https://example.org/h"), Str("10.1/h"),
            Absent, TList(<<"Governance">>), Absent,
            DAbsent, DAbsent, DParts(<<PNull>>), Ymd(2021, 1, 1)),
       Work(TList(<<"County misconduct">>), Str("https://example.org/i"), Str("10.1/i"),
            Absent, TList(<<"Governance">>), Absent,
            DParts(<<PInt(2021), PStr("n/a")>>), DAbsent, DAbsent, Ymd(2021, 1, 1)) >>

\* the body world w serves for query q
Response(w, q) ==
    LET n == Len(Works)
        first == Works[((q * w + w) % n) + 1]
        second == Works[((q * (w + 1) + 3) % n) + 1]
    IN  IF w % 2 = 0 /\ q = 2 THEN Payload("no_message", <<>>)
        ELSE IF w % 2 = 1 /\ q = 9 THEN Payload("items_not_list", <<>>)
        ELSE IF w % 3 = 0 /\ q = 7 THEN Payload("items", <<first, UndatedWorks[1], second>>)
        ELSE IF w % 3 = 2 /\ q = 6 THEN Payload("items", <<first, second, UndatedWorks[2]>>)
        ELSE IF w % 3 = 2 /\ q = 4 THEN Payload("items", <<first, NullEntry>>)
        ELSE Payload("items", <<first, second>>)

\* bodies parse_crossref_items cannot take
UnparsableShapes == {"not_json", "top_array", "message_not_object"}

\* when the run starts
RunStart == DateTime(2026, 11, 3, 2, 51, 0, 0)
StartTimes == { RunStart, DateTime(2026, 11, 3, 2, 51, 0, 250000) }

(***************************************************************************)
(* State.                                                                  *)
(***************************************************************************)
VARIABLES
    pc,         \* where main() is: fetch, build, done, raised; apply in the
                \* specifications of single functions
    query,      \* the index in ACADEMIC_QUERIES of the query collect_stories is at
    collected,  \* collect_stories: collected
    seen_keys,  \* collect_stories: seen_keys
    stories,    \* what collect_stories returned
    output,     \* what build_output returned, <<>> before
    exc,        \* the exception that ended main(), "none" if none
    world,      \* which responses the queries get
    clock,      \* the time the run started
    failed,     \* history: the queries whose fetch raised
    accepted,   \* history: the parsed item behind each story of collected
    arg,        \* the argument of the function a single-function specification applies
    ret         \* its result, <<>> before

vars == <<pc, query, collected, seen_keys, stories, output, exc, world, clock,
          failed, accepted, arg, ret>>

\* datetime.now(timezone.utc) while query q is processed, q seconds into the run
Now(q) == [clock EXCEPT !.second = q]

NoArg == ""

Init ==
    /\ pc = "fetch"
    /\ query = 1
    /\ collected = <<>>
    /\ seen_keys = {}
    /\ stories = <<>>
    /\ output = <<>>
    /\ exc = "none"
    /\ world \in 1..NumWorlds
    /\ clock \in StartTimes
    /\ failed = {}
    /\ accepted = <<>>
    /\ arg = NoArg
    /\ ret = <<>>

\* the end of one pass of the loop over ACADEMIC_QUERIES: the next query, or
\* the return of the sorted list
NextQuery(collected_now) ==
    IF query = Len(ACADEMIC_QUERIES)
    THEN /\ pc' = "build"
         /\ stories' = SortedByPublishedAt(collected_now)
         /\ UNCHANGED query
    ELSE /\ query' = query + 1
         /\ UNCHANGED <<pc, stories>>

\* break, not continue
FetchFailsEndsLoop ==
    /\ pc = "fetch"
    /\ Cardinality(failed) < MaxFailures
    /\ failed' = failed \cup {query}
    /\ pc' = "build"
    /\ stories' = SortedByPublishedAt(collected)
    /\ UNCHANGED <<query, collected, seen_keys, accepted, output, exc, world, clock, arg, ret>>

\* fetch(crossref_works_url(query)) raises: except Exception: continue
FetchFails ==
    /\ pc = "fetch"
    /\ Cardinality(failed) < MaxFailures
    /\ failed' = failed \cup {query}
    /\ NextQuery(collected)
    /\ UNCHANGED <<collected, seen_keys, accepted, output, exc, world, clock, arg, ret>>

\* fetch returns a body: parse_crossref_items, outside the try, and the loop
\* over its items
FetchReturns ==
    /\ pc = "fetch"
    /\ \E payload \in {Response(world, query)} \cup {Payload(sh, <<>>) : sh \in UnparsableShapes} :
         LET parsed == parse_crossref_items(payload, Now(query))
             acc == ItemLoop(parsed.v, [collected |-> collected, seen_keys |-> seen_keys,
                                        accepted |-> accepted])
         IN  IF parsed.exc # "none"
             THEN /\ pc' = "raised"
                  /\ exc' = parsed.exc
                  /\ UNCHANGED <<query, collected, seen_keys, accepted, stories>>
             ELSE /\ collected' = acc.collected
                  /\ seen_keys' = acc.seen_keys
                  /\ accepted' = acc.accepted
                  /\ NextQuery(acc.collected)
                  /\ UNCHANGED exc
    /\ UNCHANGED <<output, world, clock, failed, arg, ret>>

\* main(): payload = build_output(stories), written to OUTPUT_PATH
BuildOutput ==
    /\ pc = "build"
    /\ output' = <<build_output(stories, Now(Len(ACADEMIC_QUERIES) + 1))>>
    /\ pc' = "done"
    /\ UNCHANGED <<query, collected, seen_keys, stories, exc, world, clock, failed,
                   accepted, arg, ret>>

Next == FetchFails \/ FetchReturns \/ BuildOutput

Spec == Init /\ [][Next]_vars

(***************************************************************************)
(* short_title alone: applied to titles of runs of letters and whitespace  *)
(* around the limit.                                                       *)
(***************************************************************************)
MaxGap == 3

RECURSIVE Repeat(_, _)
Repeat(c, n) ==
    IF n <= 0 THEN ""
    ELSE IF n = 1 THEN c
    ELSE Repeat(c, n \div 2) \o Repeat(c, n - (n \div 2))

TitleInputs ==
    { lead \o Repeat("a", n1) \o Repeat(gap, g) \o Repeat("b", n2) \o trail :
        lead \in {"", "  "}, trail \in {"", " "}, gap \in {" ", "\t"},
        n1 \in {0, 1} \cup ((DefaultLimit - 2)..(DefaultLimit + 1)),
        g \in 0..MaxGap, n2 \in 0..3 }

InitTitle ==
    /\ pc = "apply"
    /\ arg \in TitleInputs
    /\ ret = <<>>
    /\ query = 1 /\ collected = <<>> /\ seen_keys = {} /\ stories = <<>>
    /\ output = <<>> /\ exc = "none" /\ world = 1 /\ failed = {} /\ accepted = <<>>
    /\ clock = RunStart

\* short_title(title), as normalize_story calls it
ApplyShortTitle ==
    /\ pc = "apply"
    /\ ret' = <<short_title(arg, DefaultLimit)>>
    /\ pc' = "applied"
    /\ UNCHANGED <<query, collected, seen_keys, stories, output, exc, world, clock,
                   failed, accepted, arg>>

NextTitle == ApplyShortTitle

SpecTitle == InitTitle /\ [][NextTitle]_vars

(***************************************************************************)
(* normalize_story alone, and build_output of what it returns: applied to  *)
(* parsed items whose titles are made of a few words.                      *)
(***************************************************************************)
MaxWords == 2

Vocabulary ==
    { "fraud", "transparency", "City", "charity", "stock", "anti-fraud", "weather" }

RECURSIVE TitlesUpTo(_)
TitlesUpTo(n) ==
    IF n = 0 THEN {""}
    ELSE LET shorter == TitlesUpTo(n - 1)
         IN  shorter \cup { IF t = "" THEN w ELSE t \o " " \o w : t \in shorter, w \in Vocabulary }

ParsedItem(title, url, doi, published_at, source, abstract) ==
    [title |-> title, url |-> url, doi |-> doi, published_at |-> published_at,
     source |-> source, abstract |-> abstract]

\* the item of the scenario "Foundation Adopts New Ethics Rules After Audit"
FoundationItem ==
    ParsedItem("Foundation Adopts New Ethics Rules After Audit",
               "https://example.org/foundation", "", DateTime(2026, 10, 2, 0, 0, 0, 0),
               "Regional News", "")

ItemInputs ==
    { ParsedItem(title, url, "", DateTime(2026, 10, 2, 0, 0, 0, 0), "Journal", abstract) :
        title \in TitlesUpTo(MaxWords), url \in {"", "https://example.org/x"},
        abstract \in {"", "NGO reform"} }
    \cup {FoundationItem}

InitClassify ==
    /\ pc = "apply"
    /\ arg \in ItemInputs
    /\ ret = <<>>
    /\ query = 1 /\ collected = <<>> /\ seen_keys = {} /\ stories = <<>>
    /\ output = <<>> /\ exc = "none" /\ world = 1 /\ failed = {} /\ accepted = <<>>
    /\ clock = RunStart

\* normalize_story(item); the stories are the one it returns, if any
ApplyNormalizeStory ==
    /\ pc = "apply"
    /\ ret' = normalize_story(arg)
    /\ collected' = ret'
    /\ stories' = SortedByPublishedAt(ret')
    /\ pc' = "build"
    /\ UNCHANGED <<query, seen_keys, output, exc, world, clock, failed, accepted, arg>>

NextClassify == ApplyNormalizeStory \/ BuildOutput

SpecClassify == InitClassify /\ [][NextClassify]_vars

(***************************************************************************)
(* The sort collect_stories returns and build_output: applied to collected *)
(* lists long enough for the cut at MAX_STORIES_PER_COLUMN.                *)
(***************************************************************************)
MaxStories == 62
NumPatterns == 4

\* publication times: midnights, as parse_date_parts makes them, and instants
\* of the run, as now() gives
Instants ==
    << DateTime(1900, 1, 1, 0, 0, 0, 0), DateTime(1999, 12, 31, 0, 0, 0, 0),
       DateTime(2000, 1, 1, 0, 0, 0, 0), DateTime(2024, 5, 17, 0, 0, 0, 0),
       DateTime(2026, 2, 10, 0, 0, 0, 0), DateTime(2026, 10, 2, 0, 0, 0, 0),
       DateTime(2026, 11, 3, 0, 0, 0, 0), DateTime(2026, 11, 3, 2, 51, 4, 0),
       DateTime(2026, 11, 3, 2, 51, 4, 7), DateTime(2026, 11, 3, 2, 51, 4, 250000),
       DateTime(2027, 1, 1, 0, 0, 0, 0) >>

\* published_at of a story published at each of Instants
InstantStrings == [k \in DOMAIN Instants |-> isoformat(Instants[k])]

\* the i-th story of the list of pattern a: its flags and its time vary with
\* i, its url names it
PatternStory(i, a) ==
    LET kind == IF a = 1 THEN 2 ELSE (i * (a - 1) + (i \div a)) % 3
        at == ((i * i + a * i) % Len(Instants)) + 1
    IN  [title |-> "Public charity fraud " \o ZeroPad(i, 1),
         short_title |-> "Public charity fraud " \o ZeroPad(i, 1),
         url |-> "https://example.org/" \o ZeroPad(i, 1),
         source |-> "Journal",
         published_at |-> InstantStrings[at],
         sentiment |-> "negative",
         government |-> kind # 1,
         nonprofit |-> kind # 0]

InitOutput ==
    /\ pc = "sort"
    /\ \E n \in 0..MaxStories, a \in 1..NumPatterns :
          collected = [i \in 1..n |-> PatternStory(i, a)]
    /\ arg = NoArg /\ ret = <<>>
    /\ query = Len(ACADEMIC_QUERIES) /\ seen_keys = {} /\ stories = <<>>
    /\ output = <<>> /\ exc = "none" /\ world = 1 /\ failed = {} /\ accepted = <<>>
    /\ clock = RunStart

\* return sorted(collected, key=lambda s: s.published_at, reverse=True)
ApplySorted ==
    /\ pc = "sort"
    /\ stories' = SortedByPublishedAt(collected)
    /\ pc' = "build"
    /\ UNCHANGED <<query, collected, seen_keys, output, exc, world, clock, failed,
                   accepted, arg, ret>>

NextOutput == ApplySorted \/ BuildOutput

SpecOutput == InitOutput /\ [][NextOutput]_vars

(***************************************************************************)
(* What a run has seen, recomputed from the responses.                     *)
(***************************************************************************)
\* the key the claims speak of: the DOI if non-empty, else the url
ClaimKey(item) == IF item.doi # "" THEN item.doi ELSE item.url

EmptyAcc == [collected |-> <<>>, seen_keys |-> {}, accepted |-> <<>>]

\* collect_stories over the queries qs alone, in order
RECURSIVE CollectOver(_, _)
CollectOver(qs, acc) ==
    IF qs = <<>> THEN acc
    ELSE CollectOver(Tail(qs),
                     ItemLoop(parse_crossref_items(Response(world, Head(qs)), Now(Head(qs))).v,
                              acc))

AllQueries == [q \in 1..Len(ACADEMIC_QUERIES) |-> q]
NotFailed(q) == q \notin failed
NonFailing == SelectSeq(AllQueries, NotFailed)

\* every item parsed in the run, in query order
RECURSIVE ParsedOver(_)
ParsedOver(qs) ==
    IF qs = <<>> THEN <<>>
    ELSE parse_crossref_items(Response(world, Head(qs)), Now(Head(qs))).v \o ParsedOver(Tail(qs))

AllParsed == ParsedOver(NonFailing)

\* C1 (as claimed): a body that cannot be parsed only skips its query; no run
\* ends with the exception json.loads or the walk down to message.items raised.
C1_UnparsableBodySkipped ==
    pc = "raised" => exc \notin {"JSONDecodeError", "AttributeError"}

\* C2: queries whose fetch raises contribute nothing: collect_stories returns
\* what a run over the other queries alone returns, the same list and the same
\* keys, and no run ends raised at a query whose fetch raised.
C2_FailedQueriesContributeNothing ==
    /\ pc = "build" =>
         LET ref == CollectOver(NonFailing, EmptyAcc)
         IN  /\ collected = ref.collected
             /\ seen_keys = ref.seen_keys
             /\ stories = SortedByPublishedAt(ref.collected)
    /\ pc = "raised" => query \notin failed
    /\ failed \subseteq 1..Len(ACADEMIC_QUERIES)

C2_Witness ==
    /\ pc = "build"
    /\ Cardinality(failed) = 2
    /\ Len(stories) >= 3
    /\ \E q \in failed : parse_crossref_items(Response(world, q), Now(q)).exc # "none"

\* AllParsed with, beside each item, its key and what normalize_story makes
\* of it: a sequence of [item, key, story]
Judged ==
    LET parsed == AllParsed
    IN  [m \in DOMAIN parsed |->
            [item |-> parsed[m], key |-> ClaimKey(parsed[m]),
             story |-> normalize_story(parsed[m])]]

\* the keys of the stories of collected
AcceptedKeys == [n \in DOMAIN accepted |-> ClaimKey(accepted[n])]

\* C3 (as claimed): of the items sharing a key exactly one survives, the first
\* encountered.
C3_FirstEncounteredSurvives ==
    pc = "build" =>
        LET J == Judged
            K == AcceptedKeys
        IN  \A i, j \in DOMAIN J :
                (i < j /\ J[i].key = J[j].key) =>
                    LET f == CHOOSE m \in DOMAIN J :
                                /\ J[m].key = J[i].key
                                /\ \A l \in 1..(m - 1) : J[l].key # J[i].key
                        with == { n \in DOMAIN K : K[n] = J[i].key }
                    IN  /\ Cardinality(with) = 1
                        /\ \A n \in with : accepted[n] = J[f].item

\* C3 (amended): of the items sharing a key at most one survives, the first
\* that normalize_story accepts; none survives if it accepts none of them.
C3_FirstAcceptedSurvives ==
    pc = "build" =>
        LET J == Judged
            K == AcceptedKeys
        IN  \A i, j \in DOMAIN J :
                (i < j /\ J[i].key = J[j].key) =>
                    LET ok == { m \in DOMAIN J : J[m].key = J[i].key /\ J[m].story # <<>> }
                        with == { n \in DOMAIN K : K[n] = J[i].key }
                    IN  IF ok = {} THEN with = {}
                        ELSE LET f == CHOOSE m \in ok : \A l \in ok : m <= l
                             IN  /\ Cardinality(with) = 1
                                 /\ \A n \in with :
                                        /\ accepted[n] = J[f].item
                                        /\ collected[n] = J[f].story[1]
                                        /\ \E m \in DOMAIN stories : stories[m] = collected[n]

\* a key three items share, the first of them rejected, the second retained
C3_Witness ==
    /\ pc = "build"
    /\ LET J == Judged
       IN  \E i, j, l \in DOMAIN J :
              /\ i < j /\ j < l
              /\ J[i].key = J[j].key
              /\ J[j].key = J[l].key
              /\ J[i].story = <<>>
              /\ J[l].story # <<>>
              /\ J[l].item # J[j].item
              /\ \E n \in DOMAIN accepted : accepted[n] = J[j].item

\* C4 (as claimed): no two stories of the result share a url.
C4_NoTwoStoriesShareUrl ==
    pc = "build" =>
        \A i, j \in DOMAIN stories : i # j => stories[i].url # stories[j].url

\* C4 (amended): two items with one url and different titles are both retained
\* only if their DOIs differ; with equal DOIs, or none, the one retained is
\* the first normalize_story accepts.
C4_SameUrlSameDoiOnce ==
    pc = "build" =>
        LET J == Judged
        IN  /\ \A i, j \in DOMAIN accepted :
                  (i # j /\ accepted[i].url = accepted[j].url) =>
                      accepted[i].doi # accepted[j].doi
            /\ \A i, j \in DOMAIN J :
                  ( /\ i < j
                    /\ J[i].item.url = J[j].item.url
                    /\ J[i].item.doi = J[j].item.doi
                    /\ J[i].item.title # J[j].item.title
                    /\ J[i].story # <<>> ) =>
                      \A n \in DOMAIN accepted : accepted[n] # J[j].item
            /\ Len(accepted) = Len(stories)

\* two items, one url, no DOI, two titles, both acceptable: one story
C4_Witness ==
    /\ pc = "build"
    /\ LET J == Judged
       IN  \E i, j \in DOMAIN J :
              /\ i < j
              /\ J[i].item.url = J[j].item.url
              /\ J[i].item.doi = "" /\ J[j].item.doi = ""
              /\ J[i].item.title # J[j].item.title
              /\ J[i].story # <<>>
              /\ J[j].story # <<>>
              /\ \E n \in DOMAIN accepted : accepted[n] = J[i].item

\* C5 (as claimed): no missing or malformed optional field of a work entry
\* makes the parser raise; in particular not the int() of a date part.
C5_MalformedFieldsNeverRaise ==
    pc = "raised" => exc \notin {"TypeError", "ValueError"}

\* whether s ends with suffix
EndsWith(s, suffix) ==
    Len(s) >= Len(suffix) /\ SubSeq(s, Len(s) - Len(suffix) + 1, Len(s)) = suffix

\* no whitespace but single spaces between other characters
IsCollapsed(s) ==
    \A i \in 1..Len(s) :
        IsSpace(Char(s, i)) =>
            /\ Char(s, i) = " "
            /\ i > 1 /\ i < Len(s)
            /\ ~IsSpace(Char(s, i + 1))

\* C6 (as claimed): short_title(title) has at most 95 characters, is
\* whitespace-collapsed, and ends in the suffix iff the title had more than 95.
C6_ShortTitleContract ==
    pc = "applied" =>
        /\ Len(ret[1]) <= DefaultLimit
        /\ IsCollapsed(ret[1])
        /\ EndsWith(ret[1], EllipsisSuffix) <=> Len(arg) > DefaultLimit

\* C7 (as claimed): the story of "Foundation Adopts New Ethics Rules After
\* Audit", source "Regional News", is positive and nonprofit.
C7_FoundationScenarioPositive ==
    (pc # "apply" /\ arg = FoundationItem) =>
        /\ ret # <<>>
        /\ ret[1].sentiment = "positive"
        /\ ret[1].nonprofit

Min(a, b) == IF a < b THEN a ELSE b

\* C8: the government list is the first min(60, n) government-flagged stories
\* of the list build_output is given, in their order, and the nonprofit list
\* the first min(60, m) nonprofit-flagged ones, each cut on its own.
C8_ColumnsAreIndependentPrefixes ==
    pc = "done" =>
        /\ Len(output[1].government)
             = Min(MAX_STORIES_PER_COLUMN,
                   Cardinality({ p \in DOMAIN stories : stories[p].government }))
        /\ Len(output[1].nonprofit)
             = Min(MAX_STORIES_PER_COLUMN,
                   Cardinality({ p \in DOMAIN stories : stories[p].nonprofit }))
        /\ \A p \in DOMAIN stories :
              /\ stories[p].government =>
                    LET r == Cardinality({ q \in 1..p : stories[q].government })
                    IN  r <= MAX_STORIES_PER_COLUMN =>
                            output[1].government[r] = to_dict(stories[p])
              /\ stories[p].nonprofit =>
                    LET r == Cardinality({ q \in 1..p : stories[q].nonprofit })
                    IN  r <= MAX_STORIES_PER_COLUMN =>
                            output[1].nonprofit[r] = to_dict(stories[p])

\* both lists full, from a list of more than 60 stories carrying both flags
C8_Witness ==
    /\ pc = "done"
    /\ Len(output[1].government) = MAX_STORIES_PER_COLUMN
    /\ Len(output[1].nonprofit) = MAX_STORIES_PER_COLUMN
    /\ Cardinality({ p \in DOMAIN stories : stories[p].government /\ stories[p].nonprofit })
         > MAX_STORIES_PER_COLUMN
    /\ output[1].government[1] = output[1].nonprofit[1]

\* the instant a published_at string of the lists stands for
InstantOf(s) == Instants[CHOOSE k \in DOMAIN Instants : InstantStrings[k] = s]

TimeFields(dt) ==
    <<dt.year, dt.month, dt.day, dt.hour, dt.minute, dt.second, dt.microsecond>>

\* d1 is earlier than d2
Earlier(d1, d2) ==
    \E k \in 1..7 :
        /\ \A l \in 1..(k - 1) : TimeFields(d1)[l] = TimeFields(d2)[l]
        /\ TimeFields(d1)[k] < TimeFields(d2)[k]

\* where collected holds the story a dict of the output was made from
PlaceInCollected(d) == CHOOSE p \in DOMAIN collected : collected[p].url = d.url

NewestFirstStable(list) ==
    /\ \A i \in 1..(Len(list) - 1) :
          ~Earlier(InstantOf(list[i].published_at), InstantOf(list[i + 1].published_at))
    /\ \A i, j \in DOMAIN list :
          (i < j /\ list[i].published_at = list[j].published_at) =>
              PlaceInCollected(list[i]) < PlaceInCollected(list[j])

\* C9: in both output lists no story is earlier than the next, as times, and
\* stories of one published_at stand in the order they were collected in.
C9_OutputNewestFirstStable ==
    pc = "done" =>
        /\ NewestFirstStable(output[1].government)
        /\ NewestFirstStable(output[1].nonprofit)

\* a list collected out of order, with stories of one published_at, and with a
\* midnight and instants of the same day with and without microseconds
C9_Witness ==
    /\ pc = "done"
    /\ \E p, q \in DOMAIN collected :
          p < q /\ Earlier(InstantOf(collected[p].published_at),
                           InstantOf(collected[q].published_at))
    /\ \E i, j \in DOMAIN output[1].government :
          i < j /\ output[1].government[i].published_at = output[1].government[j].published_at
    /\ \E i \in 1..(Len(output[1].nonprofit) - 1) :
          /\ InstantOf(output[1].nonprofit[i].published_at).microsecond # 0
          /\ InstantOf(output[1].nonprofit[i + 1].published_at).microsecond = 0
          /\ InstantOf(output[1].nonprofit[i + 1].published_at).second
               = InstantOf(output[1].nonprofit[i].published_at).second
          /\ InstantOf(output[1].nonprofit[i + 1].published_at).hour # 0

\* C10: a story is negative whenever a negative keyword matches its text,
\* positive only when none does and a positive one matches, and there is no
\* story when neither matches; so every story, and every entry of both output
\* lists, is positive or negative.
C10_NegativeWinsNeverNull ==
    /\ pc \in {"build", "done"} =>
          /\ \A n \in DOMAIN ret :
                /\ ret[n].sentiment \in {"positive", "negative"}
                /\ contains_any(TextOf(arg), NEGATIVE_KEYWORDS) => ret[n].sentiment = "negative"
                /\ ret[n].sentiment = "positive" =>
                      /\ ~contains_any(TextOf(arg), NEGATIVE_KEYWORDS)
                      /\ contains_any(TextOf(arg), POSITIVE_KEYWORDS)
          /\ ( /\ ~contains_any(TextOf(arg), NEGATIVE_KEYWORDS)
               /\ ~contains_any(TextOf(arg), POSITIVE_KEYWORDS) ) => ret = <<>>
          /\ \A n \in DOMAIN stories : stories[n].sentiment \in {"positive", "negative"}
    /\ pc = "done" =>
          /\ \A n \in DOMAIN output[1].government :
                output[1].government[n].sentiment \in {"positive", "negative"}
          /\ \A n \in DOMAIN output[1].nonprofit :
                output[1].nonprofit[n].sentiment \in {"positive", "negative"}

\* a text a negative and a positive keyword both match, tagged negative and
\* written to an output list
C10_Witness ==
    /\ pc = "done"
    /\ contains_any(TextOf(arg), NEGATIVE_KEYWORDS)
    /\ contains_any(TextOf(arg), {"transparency"})
    /\ Len(output[1].nonprofit) = 1
    /\ output[1].nonprofit[1].sentiment = "negative"

=============================================================================
